---- MODULE Spec2Model ----
(***************************************************************************)
(* A model of the nawa rope: the tree rope of crates/nawa, its earlier     *)
(* copy in src/lib.rs, and the flat-array rope of crates/naive, driven in  *)
(* lockstep the way crates/tests drives them.                              *)
(*                                                                         *)
(* A tree is a record: a Leaf holding a sequence, or a Node holding two    *)
(* trees and a cached length.  Every call is total in the model: it        *)
(* returns an outcome record whose kind is "Ok" or the panic it raised.    *)
(***************************************************************************)
EXTENDS Integers, Sequences, FiniteSets, TLC

\* Longest rope the driver builds.
MaxLen == 3
\* Longest list the driver inserts at once.
MaxXs == 2
\* Indices and range endpoints the driver tries run past the longest rope.
MaxIndex == MaxLen + 1
\* Element values.
Elems == {"a", "b"}

RECURSIVE Seqs(_)
\* All sequences over Elems of length at most n.
Seqs(n) ==
  IF n = 0 THEN {<<>>}
  ELSE LET S == Seqs(n - 1)
       IN  S \cup {Append(s, e) : s \in {t \in S : Len(t) = n - 1}, e \in Elems}

\* Vec::split_off(at): the prefix kept and the suffix returned.
Take(xs, i) == SubSeq(xs, 1, i)
Drop(xs, i) == SubSeq(xs, i + 1, Len(xs))

(***************************************************************************)
(* Repr: the tree.                                                         *)
(***************************************************************************)
Leaf(xs) == [tag |-> "Leaf", xs |-> xs]
Node(l, n, r) == [tag |-> "Node", left |-> l, len |-> n, right |-> r]

ReprNew == Leaf(<<>>)

ReprLen(t) == IF t.tag = "Leaf" THEN Len(t.xs) ELSE t.len

\* A join that keeps empty operands.
ReprNodeNoElide(left, right) == Node(left, ReprLen(left) + ReprLen(right), right)

\* A join that caches only the left operand's length.
ReprNodeLeftLen(left, right) ==
  IF ReprLen(left) = 0 THEN right
  ELSE IF ReprLen(right) = 0 THEN left
  ELSE Node(left, ReprLen(left), right)

ReprNode(left, right) ==
  IF ReprLen(left) = 0 THEN right
  ELSE IF ReprLen(right) = 0 THEN left
  ELSE Node(left, ReprLen(left) + ReprLen(right), right)

RECURSIVE ToVecLoop(_, _, _)
\* The loop of to_vec: `work` is the stack of deferred right subtrees.
ToVecLoop(this, work, ret) ==
  IF this.tag = "Leaf"
  THEN IF work = <<>> THEN ret \o this.xs
       ELSE ToVecLoop(work[Len(work)], SubSeq(work, 1, Len(work) - 1), ret \o this.xs)
  ELSE ToVecLoop(this.left, Append(work, this.right), ret)

ToVec(t) == ToVecLoop(t, <<>>, <<>>)

(***************************************************************************)
(* Outcomes of a call.                                                     *)
(***************************************************************************)
Ok(t) == [kind |-> "Ok", repr |-> t]
IndexOutOfBounds(len, index) == [kind |-> "IndexOutOfBounds", len |-> len, index |-> index]
InvalidRange == [kind |-> "InvalidRange"]

(***************************************************************************)
(* Repr::split of crates/nawa.                                             *)
(***************************************************************************)
\* The bounds test with the boundary index rejected.
SplitOutOfBoundsStrict(t, i) == i >= ReprLen(t)

SplitOutOfBounds(t, i) == i > ReprLen(t)

\* A diagnostic with length and index exchanged.
SplitPanicSwapped(t, i) == IndexOutOfBounds(i, ReprLen(t))

SplitPanic(t, i) == IndexOutOfBounds(ReprLen(t), i)

RECURSIVE SplitDescend(_, _, _)
\* The descent loop: ends at a Leaf, which split_off cuts at the local index.
SplitDescend(right, i, work) ==
  IF right.tag = "Leaf"
  THEN IF i > Len(right.xs)
       THEN [kind |-> "IndexOutOfBounds", len |-> Len(right.xs), index |-> i]
       ELSE [kind |-> "Ok", left |-> Leaf(Take(right.xs, i)),
             right |-> Leaf(Drop(right.xs, i)), work |-> work]
  ELSE IF i < ReprLen(right.left)
       THEN SplitDescend(right.left, i,
                         Append(work, [repr |-> right.right, dir |-> "Right"]))
       ELSE SplitDescend(right.right, i - ReprLen(right.left),
                         Append(work, [repr |-> right.left, dir |-> "Left"]))

RECURSIVE SplitUnwind(_, _, _, _)
\* The unwinding loop over work.into_iter().rev(): entries k, k-1, .., 1.
SplitUnwind(work, k, left, right) ==
  IF k = 0 THEN [kind |-> "Ok", left |-> left, right |-> right]
  ELSE IF work[k].dir = "Left"
       THEN SplitUnwind(work, k - 1, ReprNode(work[k].repr, left), right)
       ELSE SplitUnwind(work, k - 1, left, ReprNode(right, work[k].repr))

Split(t, i) ==
  IF SplitOutOfBounds(t, i) THEN SplitPanic(t, i)
  ELSE LET d == SplitDescend(t, i, <<>>)
       IN  IF d.kind # "Ok" THEN d
           ELSE SplitUnwind(d.work, Len(d.work), d.left, d.right)

(***************************************************************************)
(* Rope of crates/nawa.                                                    *)
(***************************************************************************)
\* An insert that joins the new leaf after the right part.
InsertAfter(t, i, xs) ==
  LET s == Split(t, i)
  IN  IF s.kind # "Ok" THEN s
      ELSE Ok(ReprNode(s.left, ReprNode(s.right, Leaf(xs))))

Insert(t, i, xs) ==
  LET s == Split(t, i)
  IN  IF s.kind # "Ok" THEN s
      ELSE Ok(ReprNode(s.left, ReprNode(Leaf(xs), s.right)))

\* A remove whose second split is taken at the absolute end of the range.
RemoveAbsolute(t, start, end) ==
  IF ~(start <= end) THEN InvalidRange
  ELSE LET s1 == Split(t, start)
       IN  IF s1.kind # "Ok" THEN s1
           ELSE LET s2 == Split(s1.right, end)
                IN  IF s2.kind # "Ok" THEN s2
                    ELSE Ok(ReprNode(s1.left, s2.right))

Remove(t, start, end) ==
  IF ~(start <= end) THEN InvalidRange
  ELSE LET s1 == Split(t, start)
       IN  IF s1.kind # "Ok" THEN s1
           ELSE LET s2 == Split(s1.right, end - start)
                IN  IF s2.kind # "Ok" THEN s2
                    ELSE Ok(ReprNode(s1.left, s2.right))

IsEmpty(t) == ReprLen(t) = 0

From(val) == Leaf(val)

(***************************************************************************)
(* Rope of src/lib.rs: the same tree; its split pushes the left leaf on    *)
(* the work stack and unwinds onto an empty left tree.                     *)
(***************************************************************************)
RECURSIVE RootSplitDescend(_, _, _)
RootSplitDescend(right, i, work) ==
  IF right.tag = "Leaf"
  THEN IF i > Len(right.xs)
       THEN [kind |-> "IndexOutOfBounds", len |-> Len(right.xs), index |-> i]
       ELSE [kind |-> "Ok", right |-> Leaf(Drop(right.xs, i)),
             work |-> Append(work, [repr |-> Leaf(Take(right.xs, i)), dir |-> "Left"])]
  ELSE IF i < ReprLen(right.left)
       THEN RootSplitDescend(right.left, i,
                             Append(work, [repr |-> right.right, dir |-> "Right"]))
       ELSE RootSplitDescend(right.right, i - ReprLen(right.left),
                             Append(work, [repr |-> right.left, dir |-> "Left"]))

RootSplit(t, i) ==
  IF i > ReprLen(t) THEN IndexOutOfBounds(ReprLen(t), i)
  ELSE LET d == RootSplitDescend(t, i, <<>>)
       IN  IF d.kind # "Ok" THEN d
           ELSE SplitUnwind(d.work, Len(d.work), ReprNew, d.right)

RootInsert(t, i, xs) ==
  LET s == RootSplit(t, i)
  IN  IF s.kind # "Ok" THEN s
      ELSE Ok(ReprNode(s.left, ReprNode(Leaf(xs), s.right)))

\* A delete whose second split is taken at the absolute end of the range.
RootDeleteAbsolute(t, start, end) ==
  IF ~(start <= end) THEN InvalidRange
  ELSE LET s1 == RootSplit(t, start)
       IN  IF s1.kind # "Ok" THEN s1
           ELSE LET s2 == RootSplit(s1.right, end)
                IN  IF s2.kind # "Ok" THEN s2
                    ELSE Ok(ReprNode(s1.left, s2.right))

RootDelete(t, start, end) ==
  IF ~(start <= end) THEN InvalidRange
  ELSE LET s1 == RootSplit(t, start)
       IN  IF s1.kind # "Ok" THEN s1
           ELSE LET s2 == RootSplit(s1.right, end - start)
                IN  IF s2.kind # "Ok" THEN s2
                    ELSE Ok(ReprNode(s1.left, s2.right))

(***************************************************************************)
(* Rope of crates/naive: a flat sequence.                                  *)
(***************************************************************************)
\* An insert that appends the new elements at the end.
NaiveInsertAtEnd(v, i, xs) ==
  IF i > Len(v) THEN IndexOutOfBounds(Len(v), i)
  ELSE Ok(Take(v, i) \o Drop(v, i) \o xs)

NaiveInsert(v, i, xs) ==
  IF i > Len(v) THEN IndexOutOfBounds(Len(v), i)
  ELSE Ok(Take(v, i) \o xs \o Drop(v, i))

RECURSIVE NaiveFilter(_, _, _, _)
\* enumerate().filter_map(..): keeps v[k] unless start <= k-1 < end.
NaiveFilter(v, k, start, end) ==
  IF k > Len(v) THEN <<>>
  ELSE IF start <= k - 1 /\ k - 1 < end
       THEN NaiveFilter(v, k + 1, start, end)
       ELSE <<v[k]>> \o NaiveFilter(v, k + 1, start, end)

NaiveRemove(v, start, end) ==
  IF ~(start <= end) THEN InvalidRange
  ELSE Ok(NaiveFilter(v, 1, start, end))

(***************************************************************************)
(* The driver: the three ropes are built and edited in lockstep.  A call   *)
(* that panics ends the run and produces no rope.                          *)
(***************************************************************************)
VARIABLES nawa, root, naive, last, pc

vars == <<nawa, root, naive, last, pc>>

AllOk(a, b, c) == a.kind = "Ok" /\ b.kind = "Ok" /\ c.kind = "Ok"

\* Rope::new() and Rope::from(val): new() is from(the empty list).
Init ==
  \E val \in Seqs(MaxLen) :
    /\ nawa = From(val)
    /\ root = From(val)
    /\ naive = val
    /\ last = [op |-> "from", val |-> val]
    /\ pc = "running"

\* insert(i, xs) on the three ropes.
DoInsert(i, xs) ==
  /\ pc = "running"
  /\ Len(naive) + Len(xs) <= MaxLen
  /\ LET a == Insert(nawa, i, xs)
         b == RootInsert(root, i, xs)
         c == NaiveInsert(naive, i, xs)
     IN  /\ last' = [op |-> "insert", i |-> i, xs |-> xs,
                     preNawa |-> nawa, preRoot |-> root, preNaive |-> naive,
                     outNawa |-> a, outRoot |-> b, outNaive |-> c]
         /\ IF AllOk(a, b, c)
            THEN nawa' = a.repr /\ root' = b.repr /\ naive' = c.repr /\ pc' = "running"
            ELSE UNCHANGED <<nawa, root, naive>> /\ pc' = "panicked"

\* remove(start..end) / delete(start..end) on the three ropes.
DoRemove(start, end) ==
  /\ pc = "running"
  /\ LET a == Remove(nawa, start, end)
         b == RootDelete(root, start, end)
         c == NaiveRemove(naive, start, end)
     IN  /\ last' = [op |-> "remove", start |-> start, end |-> end,
                     preNawa |-> nawa, preRoot |-> root, preNaive |-> naive,
                     outNawa |-> a, outRoot |-> b, outNaive |-> c]
         /\ IF AllOk(a, b, c)
            THEN nawa' = a.repr /\ root' = b.repr /\ naive' = c.repr /\ pc' = "running"
            ELSE UNCHANGED <<nawa, root, naive>> /\ pc' = "panicked"

Next ==
  \/ \E i \in 0..MaxIndex, xs \in Seqs(MaxXs) : DoInsert(i, xs)
  \/ \E start \in 0..MaxIndex, end \in 0..MaxIndex : DoRemove(start, end)

Spec == Init /\ [][Next]_vars

(***************************************************************************)
(* Properties.                                                             *)
(***************************************************************************)
\* The flat rope's observers: len, is_empty and to_vec of a Vec.
NaiveLen(v) == Len(v)
NaiveIsEmpty(v) == v = <<>>
NaiveToVec(v) == v

RECURSIVE NoEmptyChild(_)
\* No Node of t has a child that holds no element.
NoEmptyChild(t) ==
  t.tag = "Leaf" \/
    /\ ToVec(t.left) # <<>> /\ ReprLen(t.left) > 0
    /\ ToVec(t.right) # <<>> /\ ReprLen(t.right) > 0
    /\ NoEmptyChild(t.left)
    /\ NoEmptyChild(t.right)

RECURSIVE CountsOK(_)
\* Every Node of t caches the sum of its children's lengths.
CountsOK(t) ==
  t.tag = "Leaf" \/
    /\ t.len = ReprLen(t.left) + ReprLen(t.right)
    /\ CountsOK(t.left)
    /\ CountsOK(t.right)

\* The expected content after insert(i, xs) on content v.
Spliced(v, i, xs) == Take(v, i) \o xs \o Drop(v, i)
\* The expected content after removing [start, end) from content v.
Cut(v, start, end) == Take(v, start) \o Drop(v, end)

\* C1: an insert at a valid index i <= len succeeds on the tree rope, its
\* content is the old content with xs spliced in before index i, and its
\* length is the old length plus the length of xs.
C1_InsertSplices ==
  (last.op = "insert" /\ last.i <= ReprLen(last.preNawa)) =>
    /\ last.outNawa.kind = "Ok"
    /\ ToVec(last.outNawa.repr) = Spliced(ToVec(last.preNawa), last.i, last.xs)
    /\ ReprLen(last.outNawa.repr) = ReprLen(last.preNawa) + Len(last.xs)
    /\ last.outRoot.kind = "Ok"
    /\ ToVec(last.outRoot.repr) = Spliced(ToVec(last.preRoot), last.i, last.xs)
    /\ ReprLen(last.outRoot.repr) = ReprLen(last.preRoot) + Len(last.xs)
    /\ nawa = last.outNawa.repr

\* An insert of a non-empty list strictly inside a rope that is a Node.
C1_Witness ==
  /\ last.op = "insert"
  /\ last.preNawa.tag = "Node"
  /\ 0 < last.i /\ last.i < ReprLen(last.preNawa)
  /\ last.xs # <<>>
  /\ last.outNawa.kind = "Ok"
  /\ nawa = last.outNawa.repr

C3_Lockstep ==
  /\ ReprLen(nawa) = NaiveLen(naive)
  /\ IsEmpty(nawa) = NaiveIsEmpty(naive)
  /\ ToVec(nawa) = NaiveToVec(naive)
  /\ (last.op = "insert" /\ last.i <= NaiveLen(last.preNaive)) =>
       /\ last.outNawa.kind = "Ok" /\ last.outNaive.kind = "Ok"
       /\ nawa = last.outNawa.repr /\ naive = last.outNaive.repr
  /\ (last.op = "remove" /\ last.start <= last.end /\ last.end <= NaiveLen(last.preNaive)) =>
       /\ last.outNawa.kind = "Ok" /\ last.outNaive.kind = "Ok"
       /\ nawa = last.outNawa.repr /\ naive = last.outNaive.repr

\* A second or later step of a lockstep run: a valid remove from a Node that
\* leaves a Node.
C3_Witness ==
  /\ last.op = "remove"
  /\ pc = "running"
  /\ last.start < last.end
  /\ last.preNawa.tag = "Node"
  /\ nawa.tag = "Node"
  /\ naive = last.outNaive.repr

\* C4: insert on the tree rope fails iff i > len; the failure is an
\* index-out-of-bounds panic reporting len as the length and i as the index,
\* and it produces no rope.
C4_InsertFailure ==
  last.op = "insert" =>
    /\ (last.outNawa.kind # "Ok") <=> (last.i > ReprLen(last.preNawa))
    /\ last.outNawa.kind # "Ok" =>
         /\ last.outNawa = IndexOutOfBounds(ReprLen(last.preNawa), last.i)
         /\ "repr" \notin DOMAIN last.outNawa
         /\ pc = "panicked"
         /\ nawa = last.preNawa

\* A failing insert into a three-element rope that is a Node.
C4_Witness ==
  /\ last.op = "insert"
  /\ last.preNawa.tag = "Node"
  /\ ReprLen(last.preNawa) = 3
  /\ last.i > 3
  /\ last.outNawa.kind = "IndexOutOfBounds"

\* C5: remove on the tree rope fails with InvalidRange when start > end,
\* whatever the length; otherwise with IndexOutOfBounds iff end > len;
\* otherwise it succeeds.  An empty range start = end fails iff start > len.
C5_RemoveFailure ==
  last.op = "remove" =>
    /\ last.start > last.end => last.outNawa.kind = "InvalidRange"
    /\ last.start <= last.end =>
         /\ (last.outNawa.kind = "IndexOutOfBounds") <=> (last.end > ReprLen(last.preNawa))
         /\ last.end <= ReprLen(last.preNawa) => last.outNawa.kind = "Ok"
    /\ last.start = last.end =>
         ((last.outNawa.kind # "Ok") <=> (last.start > ReprLen(last.preNawa)))

\* A reversed range that also lies past the end: the range test comes first.
C5_Witness ==
  /\ last.op = "remove"
  /\ last.start > last.end
  /\ last.end > ReprLen(last.preNawa)
  /\ last.preNawa.tag = "Node"
  /\ last.outNawa.kind = "InvalidRange"

\* C6: every index-out-of-bounds failure of the tree rope reports the length
\* of the rope the caller operated on and the index or endpoint the caller
\* passed: for remove, len and end (start when start > len).
C6_DiagnosticIsCallers ==
  /\ (last.op = "insert" /\ last.outNawa.kind = "IndexOutOfBounds") =>
       last.outNawa = IndexOutOfBounds(ReprLen(last.preNawa), last.i)
  /\ (last.op = "remove" /\ last.outNawa.kind = "IndexOutOfBounds") =>
       last.outNawa = IndexOutOfBounds(ReprLen(last.preNawa),
                        IF last.start > ReprLen(last.preNawa) THEN last.start ELSE last.end)

\* C7: delete of src/lib.rs panics iff start > end, start >= len or end > len.
C7_DeletePanicsAsDocumented ==
  last.op = "remove" =>
    ((last.outRoot.kind # "Ok") <=>
       \/ last.start > last.end
       \/ last.start >= ReprLen(last.preRoot)
       \/ last.end > ReprLen(last.preRoot))

\* C8: remove of the flat rope panics iff the range is out of bounds
\* (start > end or end > len), exactly when the tree rope's remove fails.
C8_NaiveRemoveFailure ==
  last.op = "remove" =>
    /\ (last.outNaive.kind # "Ok") <=>
         (last.start > last.end \/ last.end > NaiveLen(last.preNaive))
    /\ (last.outNaive.kind # "Ok") <=> (last.outNawa.kind # "Ok")

\* C9: no Node of a reachable rope, or of either tree a successful split of
\* it returns, has an empty child; an empty rope is an empty Leaf.
C9_NoEmptyChild ==
  /\ NoEmptyChild(nawa)
  /\ NoEmptyChild(root)
  /\ IsEmpty(nawa) => nawa = ReprNew
  /\ IsEmpty(root) => root = ReprNew
  /\ ToVec(nawa) = <<>> => nawa = ReprNew
  /\ \A i \in 0..ReprLen(nawa) :
       /\ Split(nawa, i).kind = "Ok"
       /\ NoEmptyChild(Split(nawa, i).left)
       /\ NoEmptyChild(Split(nawa, i).right)
       /\ RootSplit(root, i).kind = "Ok"
       /\ NoEmptyChild(RootSplit(root, i).left)
       /\ NoEmptyChild(RootSplit(root, i).right)

\* An empty-range remove or an insert of the empty list on a rope that is a
\* Node, the cases where a join meets an empty operand on both sides.
C9_Witness ==
  /\ pc = "running"
  /\ nawa.tag = "Node"
  /\ \/ last.op = "remove" /\ last.start = last.end /\ last.start = 0
     \/ last.op = "insert" /\ last.xs = <<>> /\ last.i = ReprLen(last.preNawa)

\* C10: every Node caches the sum of its children's lengths, so len is the
\* number of elements of to_vec and is_empty holds exactly when to_vec is
\* empty.
C10_CachedCount ==
  /\ CountsOK(nawa)
  /\ CountsOK(root)
  /\ ReprLen(nawa) = Len(ToVec(nawa))
  /\ ReprLen(root) = Len(ToVec(root))
  /\ IsEmpty(nawa) <=> (ToVec(nawa) = <<>>)

\* A rope of three leaves reached by an insert or a remove.
C10_Witness ==
  /\ last.op \in {"insert", "remove"}
  /\ pc = "running"
  /\ nawa.tag = "Node"
  /\ (nawa.left.tag = "Node" \/ nawa.right.tag = "Node")
  /\ ReprLen(nawa) = 3

====
